---- MODULE Spec2Model ----
(***************************************************************************)
(* Model of the Responsive content-library MCP bridge:                     *)
(*   src/src/mcp_responsive.py         the server module: the credential   *)
(*       read at import, the tool search_content registered by             *)
(*       @mcp.tool(), and make_responsive_request, the outbound call;      *)
(*   src/src/mcp_responsive_client.py  the client driver run().            *)
(*                                                                         *)
(* Python values are tagged tuples: <<"str", s>>, <<"int", n>>,            *)
(* <<"bool", b>>, <<"list", seq>>, <<"dict", f>>, <<"null">>.              *)
(***************************************************************************)
EXTENDS Integers, Sequences, FiniteSets, TLC

VARIABLES api_token, tools, defaults, cpc, tools_seen,
          pc, args, request, outcome, result, exc

vars == <<api_token, tools, defaults, cpc, tools_seen,
          pc, args, request, outcome, result, exc>>

(* ------------------------------ bounds -------------------------------- *)

\* Coroutine activations of search_content that may be in flight together.
NumInv == 2

Slots == 1..NumInv

\* The activation the client driver's one call_tool starts.
ClientSlot == 1

\* The activations other callers of the tool start.
OtherSlots == Slots \ {ClientSlot}

(* --------------------------- Python values ---------------------------- *)

JNull == <<"null">>

JStr(s) == <<"str", s>>

JInt(n) == <<"int", n>>

JBool(b) == <<"bool", b>>

JList(l) == <<"list", l>>

JDict(f) == <<"dict", f>>

IsStr(v) == v[1] = "str"

IsList(v) == v[1] = "list"

IsDict(v) == v[1] = "dict"

\* Python truthiness of the credential: None and "" are both falsy.
Truthy(v) == v # JNull /\ v # JStr("")

\* str(n) of a non-negative integer, as an f-string formats it.
Digit(d) == CASE d = 0 -> "0" [] d = 1 -> "1" [] d = 2 -> "2" [] d = 3 -> "3"
              [] d = 4 -> "4" [] d = 5 -> "5" [] d = 6 -> "6" [] d = 7 -> "7"
              [] d = 8 -> "8" [] d = 9 -> "9"

RECURSIVE IntToStr(_)
IntToStr(n) == IF n < 10 THEN Digit(n) ELSE IntToStr(n \div 10) \o Digit(n % 10)

(* ------------------- search_content: the signature -------------------- *)

\* The parameters of search_content, in signature order.
Params ==
  << "keyword", "approvers", "businessUnits", "collectionList", "cursor",
     "customFields", "facetFields", "flagFilter", "hasAlertText",
     "hasAttachment", "hasImage", "hasOpenComment", "idsList",
     "languageSearch", "lastUpdatedBy", "limit", "metadata", "owners",
     "projectSearch", "sectionSearch", "starRating", "tagSearch" >>

ParamSet == {Params[k] : k \in 1..Len(Params)}

\* Parameters annotated List[str].
ListParams ==
  { "approvers", "businessUnits", "collectionList", "facetFields", "idsList",
    "languageSearch", "lastUpdatedBy", "owners", "projectSearch",
    "sectionSearch", "tagSearch" }

\* Parameters annotated bool.
BoolParams == {"hasAlertText", "hasAttachment", "hasImage", "hasOpenComment", "metadata"}

\* Parameters without a default value.
RequiredParams == {"keyword"}

OptionalParams == ParamSet \ RequiredParams

SignatureDefaultsLimit10 ==
  [p \in OptionalParams |->
     CASE p \in ListParams -> JList(<< >>)
       [] p \in BoolParams -> JBool(FALSE)
       [] p = "cursor" -> JStr("*")
       [] p = "customFields" -> JDict(<< >>)
       [] p = "flagFilter" -> JStr("ALL")
       [] p = "limit" -> JInt(10)
       [] p = "starRating" -> JInt(0)]

\* The default objects of the signature, created once when the def statement runs.
SignatureDefaults ==
  [p \in OptionalParams |->
     CASE p \in ListParams -> JList(<< >>)
       [] p \in BoolParams -> JBool(FALSE)
       [] p = "cursor" -> JStr("*")
       [] p = "customFields" -> JDict(<< >>)
       [] p = "flagFilter" -> JStr("ALL")
       [] p = "limit" -> JInt(25)
       [] p = "starRating" -> JInt(0)]

(* ------------------- the tool registry (@mcp.tool()) ------------------- *)

ToolDescriptorDropLast(params) ==
  [ name |-> "search_content",
    params |-> SubSeq(params, 1, Len(params) - 1),
    required |-> RequiredParams,
    defaults |-> [p \in {params[k] : k \in 1..(Len(params) - 1)} \ RequiredParams |->
                    SignatureDefaults[p]] ]

\* The descriptor the decorator derives from the function's name and signature.
ToolDescriptor(params) ==
  [ name |-> "search_content",
    params |-> params,
    required |-> {params[k] : k \in {j \in 1..Len(params) : params[j] \in RequiredParams}},
    defaults |-> [p \in {params[k] : k \in 1..Len(params)} \ RequiredParams |->
                    SignatureDefaults[p]] ]

\* The registry after the module is imported: one decorated function.
Registry == << ToolDescriptor(Params) >>

(* ----------------------- search_content: the call ---------------------- *)

\* Python's binding of keyword arguments to the signature; "" when it succeeds.
\* The annotations of the signature are not evaluated by the call.
BindError(a) ==
  IF ~(DOMAIN a \subseteq ParamSet) THEN "TypeError: unexpected keyword argument"
  ELSE IF ~(RequiredParams \subseteq DOMAIN a)
       THEN "TypeError: missing required positional argument"
       ELSE ""

\* The locals after binding: the argument when given, the shared default otherwise.
Bind(a, defs) == [p \in ParamSet |-> IF p \in DOMAIN a THEN a[p] ELSE defs[p]]

\* The dict literal `data` built from the locals.
Data(l) ==
  [ keyword |-> l["keyword"],
    approvers |-> l["approvers"],
    businessUnits |-> l["businessUnits"],
    collectionList |-> l["collectionList"],
    cursor |-> l["cursor"],
    customFields |-> l["customFields"],
    facetFields |-> l["facetFields"],
    flagFilter |-> l["flagFilter"],
    hasAlertText |-> l["hasAlertText"],
    hasAttachment |-> l["hasAttachment"],
    hasImage |-> l["hasImage"],
    hasOpenComment |-> l["hasOpenComment"],
    idsList |-> l["idsList"],
    languageSearch |-> l["languageSearch"],
    lastUpdatedBy |-> l["lastUpdatedBy"],
    limit |-> l["limit"],
    metadata |-> l["metadata"],
    owners |-> l["owners"],
    projectSearch |-> l["projectSearch"],
    sectionSearch |-> l["sectionSearch"],
    starRating |-> l["starRating"],
    tagSearch |-> l["tagSearch"] ]

DefaultsAfterCallAppending(defs, l) ==
  [defs EXCEPT !["approvers"] = JList(Append(@[2], l["keyword"]))]

\* The shared default objects once the body has run: the body mutates none of them.
DefaultsAfterCall(defs, l) == defs

(* ---------------------- make_responsive_request ------------------------ *)

base_url == "https://app.rfpio.com"

TokenError == "Exception: RESPONSIVE_API_TOKEN environment variable not set"

\* The arguments of client.post: url, headers, json=data, timeout.
PostRequest(token, data) ==
  [ url |-> base_url \o "/rfpserver/ext/v1/answer-lib/search",
    headers |-> [ Authorization |-> "Bearer " \o token[2],
                  ContentType |-> "application/json" ],
    json |-> data,
    timeout |-> 30 ]

\* Response bodies the remote endpoint may send, as raw text.
BodyOk == "{\"results\": [], \"cursor\": \"*\"}"

BodyErrShaped == "{\"error\": \"Invalid JSON response from server\"}"

BodyHtml == "<html>502 Bad Gateway</html>"

\* A body whose bytes are not valid UTF-8 (the single byte 0x80, written escaped).
BodyNotUtf8 == "\\x80"

Bodies == {BodyOk, BodyErrShaped, BodyHtml, BodyNotUtf8}

\* response.json(), which is json.loads of the body's bytes: the parsed value,
\* UnicodeDecodeError for bytes that do not decode, JSONDecodeError for text that
\* is not JSON.
JsonLoads(raw) ==
  CASE raw = BodyOk ->
         [ok |-> TRUE, value |-> JDict([results |-> JList(<< >>), cursor |-> JStr("*")]),
          cls |-> "", msg |-> ""]
    [] raw = BodyErrShaped ->
         [ok |-> TRUE, value |-> JDict([error |-> JStr("Invalid JSON response from server")]),
          cls |-> "", msg |-> ""]
    [] raw = BodyNotUtf8 ->
         [ok |-> FALSE, value |-> JNull, cls |-> "UnicodeDecodeError",
          msg |-> "'utf-8' codec can't decode byte 0x80 in position 0: invalid start byte"]
    [] OTHER ->
         [ok |-> FALSE, value |-> JNull, cls |-> "JSONDecodeError",
          msg |-> "Expecting value: line 1 column 1 (char 0)"]

\* Exception classes with the classes each is an instance of.
Mro(cls) ==
  CASE cls = "ConnectError" ->
         {"ConnectError", "NetworkError", "TransportError", "RequestError", "HTTPError", "Exception"}
    [] cls = "CancelledError" -> {"CancelledError", "BaseException"}
    [] cls = "HTTPStatusError" -> {"HTTPStatusError", "HTTPError", "Exception"}
    [] cls = "JSONDecodeError" -> {"JSONDecodeError", "ValueError", "Exception"}
    [] cls = "UnicodeDecodeError" ->
         {"UnicodeDecodeError", "UnicodeError", "ValueError", "Exception"}
    [] cls = "RuntimeError" -> {"RuntimeError", "Exception"}

\* response.raise_for_status() lets only a 2xx status pass.
IsSuccess(status) == 200 <= status /\ status <= 299

\* How the awaited client.post may end: it raises (a failure of the request, or
\* the cancellation of the task suspended in it), or a response arrives.
Outcomes ==
  { [kind |-> "raise", cls |-> "ConnectError", msg |-> "All connection attempts failed",
     status |-> 0, body |-> ""],
    [kind |-> "raise", cls |-> "RuntimeError", msg |-> "Event loop is closed",
     status |-> 0, body |-> ""],
    [kind |-> "raise", cls |-> "CancelledError", msg |-> "", status |-> 0, body |-> ""] }
  \cup
  { [kind |-> "response", cls |-> "", msg |-> "", status |-> 200, body |-> b] : b \in Bodies }
  \cup
  { [kind |-> "response", cls |-> "", msg |-> "", status |-> 500, body |-> BodyOk] }

NoOutcome == [kind |-> "none", cls |-> "", msg |-> "", status |-> 0, body |-> ""]

\* The try body: post, raise_for_status, json. Either a value or a raised exception.
TryBody(o) ==
  IF o.kind = "raise"
  THEN [raised |-> TRUE, cls |-> o.cls, msg |-> o.msg, status |-> 0, value |-> JNull]
  ELSE IF ~IsSuccess(o.status)
  THEN [raised |-> TRUE, cls |-> "HTTPStatusError", msg |-> "", status |-> o.status,
        value |-> JNull]
  ELSE IF ~JsonLoads(o.body).ok
  THEN [raised |-> TRUE, cls |-> JsonLoads(o.body).cls, msg |-> JsonLoads(o.body).msg,
        status |-> o.status, value |-> JNull]
  ELSE [raised |-> FALSE, cls |-> "", msg |-> "", status |-> o.status,
        value |-> JsonLoads(o.body).value]

\* The except clauses in the order they are written.
ExceptClauses == << "RequestError", "HTTPStatusError", "JSONDecodeError", "Exception" >>

\* The first clause that matches the raised class; "" when none does.
Handler(cls) ==
  LET m == {i \in 1..Len(ExceptClauses) : ExceptClauses[i] \in Mro(cls)}
  IN IF m = {} THEN "" ELSE ExceptClauses[CHOOSE i \in m : \A j \in m : i <= j]

ErrorDict(message) == JDict([error |-> JStr(message)])

\* The value each except clause returns.
HandlerResult(clause, t) ==
  CASE clause = "RequestError" ->
         ErrorDict("Error communicating with Responsive API: " \o t.msg)
    [] clause = "HTTPStatusError" -> ErrorDict("HTTP Error: " \o IntToStr(t.status))
    [] clause = "JSONDecodeError" -> ErrorDict("Invalid JSON response from server")
    [] clause = "Exception" -> ErrorDict("An unexpected error occurred: " \o t.msg)

\* What make_responsive_request is about to do once the outbound call has ended and
\* the try statement is left: the value to return, or the exception no clause
\* caught.
RequestResult(o) ==
  LET t == TryBody(o)
  IN IF ~t.raised THEN [raised |-> FALSE, value |-> t.value, exc |-> ""]
     ELSE IF Handler(t.cls) = "" THEN [raised |-> TRUE, value |-> JNull, exc |-> t.cls]
     ELSE [raised |-> FALSE, value |-> HandlerResult(Handler(t.cls), t), exc |-> ""]

(* ------------------------------ arguments ------------------------------ *)

\* The arguments the client driver passes to call_tool.
ClientArgs == "keyword" :> JStr("conduct")

WellTypedArgs ==
  { ClientArgs,
    ("keyword" :> JStr("policy")) @@ ("limit" :> JInt(5)) @@ ("flagFilter" :> JStr("STARRED"))
      @@ ("approvers" :> JList(<< JStr("alice") >>)) @@ ("metadata" :> JBool(TRUE)) }

IllTypedArgs ==
  { "keyword" :> JInt(5),
    ("keyword" :> JStr("conduct")) @@ ("approvers" :> JStr("alice"))
      @@ ("tagSearch" :> JList(<< JInt(1) >>)) }

UnboundArgs ==
  { << >>,
    ("keyword" :> JStr("conduct")) @@ ("bogus" :> JStr("x")) }

\* Argument mappings search_content may be called with.
ArgChoices == WellTypedArgs \cup IllTypedArgs \cup UnboundArgs

(* -------------------------------- state -------------------------------- *)

\* The credential read from the environment when the module is imported.
TokenChoices == {JNull, JStr(""), JStr("tok-123")}

Init ==
  /\ api_token \in TokenChoices
  /\ tools = Registry
  /\ defaults = SignatureDefaults
  /\ cpc = "start"
  /\ tools_seen = << >>
  /\ pc = [i \in Slots |-> "idle"]
  /\ args = [i \in Slots |-> << >>]
  /\ request = [i \in Slots |-> << >>]
  /\ outcome = [i \in Slots |-> NoOutcome]
  /\ result = [i \in Slots |-> JNull]
  /\ exc = [i \in Slots |-> ""]

\* One activation of search_content up to its first suspension: binding, the data
\* dict, then make_responsive_request up to the awaited post. The function checks
\* none of its arguments; what the decorator's dispatcher checks before it calls
\* the function lies outside these sources and is not modelled.
StartCall(i, a) ==
  /\ pc[i] = "idle"
  /\ args' = [args EXCEPT ![i] = a]
  /\ UNCHANGED <<api_token, tools, tools_seen, outcome, result>>
  /\ IF BindError(a) # ""
     THEN /\ pc' = [pc EXCEPT ![i] = "raised"]
          /\ exc' = [exc EXCEPT ![i] = BindError(a)]
          /\ UNCHANGED <<defaults, request>>
     ELSE LET l == Bind(a, defaults)
          IN /\ defaults' = DefaultsAfterCall(defaults, l)
             /\ IF ~Truthy(api_token)
                THEN /\ pc' = [pc EXCEPT ![i] = "raised"]
                     /\ exc' = [exc EXCEPT ![i] = TokenError]
                     /\ UNCHANGED request
                ELSE /\ pc' = [pc EXCEPT ![i] = "posting"]
                     /\ request' = [request EXCEPT
                                      ![i] = Append(@, PostRequest(api_token, Data(l)))]
                     /\ UNCHANGED exc

\* search_content called for another caller with any argument mapping.
SearchContent(i, a) ==
  /\ i \in OtherSlots
  /\ StartCall(i, a)
  /\ UNCHANGED cpc

\* The awaited post ends and the try statement is left: the value to return, or
\* the exception to propagate, is fixed, and the coroutine suspends again in the
\* exit of `async with httpx.AsyncClient()`.
PostEnds(i, o) ==
  /\ pc[i] = "posting"
  /\ outcome' = [outcome EXCEPT ![i] = o]
  /\ LET r == RequestResult(o)
     IN /\ pc' = [pc EXCEPT ![i] = "closing"]
        /\ result' = [result EXCEPT ![i] = r.value]
        /\ exc' = [exc EXCEPT ![i] = r.exc]
  /\ UNCHANGED <<api_token, tools, defaults, cpc, tools_seen, args, request>>

\* The exit of the async with block completes: make_responsive_request, then
\* search_content, return the value or propagate the exception.
Return(i) ==
  /\ pc[i] = "closing"
  /\ pc' = [pc EXCEPT ![i] = CASE exc[i] = "" -> "returned"
                               [] exc[i] = "CancelledError" -> "cancelled"
                               [] OTHER -> "raised"]
  /\ UNCHANGED <<api_token, tools, defaults, cpc, tools_seen, args, request, outcome,
                 result, exc>>

\* The task is cancelled while suspended in the exit of the async with block:
\* CancelledError propagates and the value that was to be returned is lost.
CancelInExit(i) ==
  /\ pc[i] = "closing"
  /\ pc' = [pc EXCEPT ![i] = "cancelled"]
  /\ exc' = [exc EXCEPT ![i] = "CancelledError"]
  /\ result' = [result EXCEPT ![i] = JNull]
  /\ UNCHANGED <<api_token, tools, defaults, cpc, tools_seen, args, request, outcome>>

\* The tool-call response for a finished activation: an error response exactly
\* when the handler raised an Exception, the handler's return value as the content
\* otherwise. A cancelled activation is not finished in this sense.
Envelope(i) ==
  IF pc[i] = "raised"
  THEN [ok |-> FALSE, content |-> JStr(exc[i])]
  ELSE [ok |-> TRUE, content |-> result[i]]

Finished(i) == pc[i] \in {"returned", "raised"}

(* --------------------------- the client driver ------------------------- *)

ServerVars == <<api_token, tools, defaults, pc, args, request, outcome, result, exc>>

\* stdio_client and ClientSession are entered: the server process is running.
Open ==
  /\ cpc = "start"
  /\ cpc' = "opened"
  /\ UNCHANGED <<ServerVars, tools_seen>>

\* await session.initialize()
Initialize ==
  /\ cpc = "opened"
  /\ cpc' = "ready"
  /\ UNCHANGED <<ServerVars, tools_seen>>

\* await session.list_prompts()
ListPrompts ==
  /\ cpc = "ready"
  /\ cpc' = "prompts"
  /\ UNCHANGED <<ServerVars, tools_seen>>

\* await session.list_resources()
ListResources ==
  /\ cpc = "prompts"
  /\ cpc' = "resources"
  /\ UNCHANGED <<ServerVars, tools_seen>>

\* await session.list_tools(): the registry's descriptors
ListTools ==
  /\ cpc = "resources"
  /\ cpc' = "tools"
  /\ tools_seen' = tools
  /\ UNCHANGED ServerVars

\* session.call_tool("search_content", arguments={"keyword": "conduct"}) is
\* written to the server process and the client suspends in the await.
ClientCallTool ==
  /\ cpc = "tools"
  /\ cpc' = "calling"
  /\ UNCHANGED <<ServerVars, tools_seen>>

\* The server process reads the client's request and calls the registered
\* function with its arguments.
HandleCallTool ==
  /\ cpc = "calling"
  /\ tools[1].name = "search_content"
  /\ StartCall(ClientSlot, ClientArgs)
  /\ UNCHANGED cpc

\* the awaited call_tool returns its result, which is printed
ClientResult ==
  /\ cpc = "calling"
  /\ Finished(ClientSlot)
  /\ cpc' = "printed"
  /\ UNCHANGED <<ServerVars, tools_seen>>

\* both async with blocks are left
Close ==
  /\ cpc = "printed"
  /\ cpc' = "closed"
  /\ UNCHANGED <<ServerVars, tools_seen>>

Next ==
  \/ \E i \in Slots, a \in ArgChoices : SearchContent(i, a)
  \/ \E i \in Slots, o \in Outcomes : PostEnds(i, o)
  \/ \E i \in Slots : Return(i)
  \/ \E i \in Slots : CancelInExit(i)
  \/ Open
  \/ Initialize
  \/ ListPrompts
  \/ ListResources
  \/ ListTools
  \/ ClientCallTool
  \/ HandleCallTool
  \/ ClientResult
  \/ Close

Spec == Init /\ [][Next]_vars

(* ------------------ reading a returned value as a result --------------- *)

\* The shape of the dict every except clause returns: the single key "error".
IsErrorEnvelope(v) == IsDict(v) /\ DOMAIN v[2] = {"error"}

\* Exception texts and status codes the modelled outcomes can carry.
Causes == {o.msg : o \in Outcomes} \cup {JsonLoads(b).msg : b \in Bodies}

StatusCodes == {o.status : o \in {x \in Outcomes : x.kind = "response"}}

\* The error kinds a returned value reads as, by the message each clause writes.
KindsOf(v) ==
  { k \in {"Transport", "HttpStatus", "Decode", "Unexpected"} :
      /\ IsErrorEnvelope(v)
      /\ CASE k = "Transport" ->
                \E c \in Causes :
                  v[2]["error"] = JStr("Error communicating with Responsive API: " \o c)
           [] k = "HttpStatus" ->
                \E n \in StatusCodes : v[2]["error"] = JStr("HTTP Error: " \o IntToStr(n))
           [] k = "Decode" -> v[2]["error"] = JStr("Invalid JSON response from server")
           [] k = "Unexpected" ->
                \E c \in Causes :
                  v[2]["error"] = JStr("An unexpected error occurred: " \o c) }

(* ------------------- the specification's own tables -------------------- *)

\* The SearchRequest fields of the data model.
DocumentedListFields ==
  { "approvers", "businessUnits", "collectionList", "idsList", "languageSearch",
    "lastUpdatedBy", "owners", "projectSearch", "sectionSearch", "tagSearch",
    "facetFields" }

DocumentedBoolFields ==
  {"hasAlertText", "hasAttachment", "hasImage", "hasOpenComment", "metadata"}

DocumentedFields ==
  {"keyword", "cursor", "customFields", "flagFilter", "limit", "starRating"}
    \cup DocumentedListFields \cup DocumentedBoolFields

\* The documented default of each optional field.
DocumentedDefault(f) ==
  CASE f \in DocumentedListFields -> JList(<< >>)
    [] f \in DocumentedBoolFields -> JBool(FALSE)
    [] f = "cursor" -> JStr("*")
    [] f = "customFields" -> JDict(<< >>)
    [] f = "flagFilter" -> JStr("ALL")
    [] f = "limit" -> JInt(25)
    [] f = "starRating" -> JInt(0)

\* The outcomes of the outbound call that are failures.
MalformedBodies == {BodyHtml, BodyNotUtf8}

NetworkFailures == {"ConnectError"}

Failing(o) ==
  \/ o.kind = "raise"
  \/ o.kind = "response" /\ ~(o.status \in 200..299)
  \/ o.kind = "response" /\ o.body \in MalformedBodies

\* The outbound call of activation i has been attempted.
Posted(i) == Len(request[i]) > 0

(* -------------------------------- claims ------------------------------- *)

\* C1 (as claimed): with no credential configured, an activation that reaches
\* make_responsive_request ends by returning an error envelope as a value, and no
\* outbound call is attempted.
C1_NoCredentialReturnsEnvelope ==
  \A i \in Slots :
    (~Truthy(api_token) /\ pc[i] # "idle" /\ BindError(args[i]) = "")
      => /\ pc[i] = "returned"
         /\ IsErrorEnvelope(result[i])
         /\ ~Posted(i)

\* The kind each failing outcome is to read as, for a value r fixed after outcome o.
KindMatches(o, r) ==
  /\ (o.kind = "raise" /\ o.cls \in NetworkFailures) => KindsOf(r) = {"Transport"}
  /\ (o.kind = "response" /\ ~(o.status \in 200..299))
       => /\ KindsOf(r) = {"HttpStatus"}
          /\ \E pre \in {"HTTP Error: "} : r[2]["error"] = JStr(pre \o IntToStr(o.status))
  /\ (o.kind = "response" /\ o.status \in 200..299 /\ o.body \in MalformedBodies)
       => KindsOf(r) = {"Decode"}
  /\ (o.kind = "raise" /\ o.cls \notin NetworkFailures) => KindsOf(r) = {"Unexpected"}
  /\ Failing(o) => Cardinality(KindsOf(r)) = 1

\* C2 (as claimed): whatever the outcome of the outbound call, an activation that
\* has posted and run to its end has returned a value and not raised; a network
\* failure reads as Transport, a non-2xx status as HttpStatus with the status code
\* in the message, a malformed body as Decode, any other failure as Unexpected,
\* and a failing outcome reads as exactly one kind. (The cancellation of the task
\* is not an outcome of the call; a cancelled activation is outside the claim.)
C2_EveryOutcomeReturnsOneKind ==
  \A i \in Slots :
    (Posted(i) /\ pc[i] \in {"returned", "raised"})
      => /\ pc[i] = "returned"
         /\ KindMatches(outcome[i], result[i])

\* C3 (as claimed): the response delivered for a finished tool call has ok = TRUE
\* exactly when the remote call succeeded; a failed call is never delivered as a
\* success.
C3_FailureNeverInSuccessEnvelope ==
  \A i \in Slots :
    Finished(i) =>
      (Envelope(i).ok <=> (pc[i] = "returned" /\ Posted(i) /\ ~Failing(outcome[i])))

\* C4: whenever keyword is supplied and a payload is sent, the payload has every
\* documented field, each supplied field unchanged and each omitted field at its
\* documented default.
C4_PayloadCompleteWithDefaults ==
  \A i \in Slots :
    ("keyword" \in DOMAIN args[i] /\ Posted(i))
      => LET d == request[i][1].json
         IN /\ DOMAIN d = DocumentedFields
            /\ \A f \in DocumentedFields :
                 d[f] = IF f \in DOMAIN args[i] THEN args[i][f] ELSE DocumentedDefault(f)

C4_Witness ==
  \E i \in Slots :
    /\ Posted(i)
    /\ args[i] = ClientArgs
    /\ request[i][1].json["limit"] = JInt(25)
    /\ request[i][1].json["flagFilter"] = JStr("ALL")
    /\ request[i][1].json["keyword"] = JStr("conduct")
    /\ \E j \in Slots :
         /\ Posted(j)
         /\ request[j][1].json["limit"] = JInt(5)
         /\ request[j][1].json["cursor"] = JStr("*")

\* C7 (as claimed): for a 2xx response with a well-formed body the returned value
\* is exactly the parsed body, and it is a success, not an error envelope.
C7_SuccessIsVerbatimAndNotAnError ==
  \A i \in Slots :
    (pc[i] = "returned" /\ outcome[i].kind = "response"
       /\ outcome[i].status \in 200..299 /\ outcome[i].body \notin MalformedBodies)
      => /\ result[i] = JsonLoads(outcome[i].body).value
         /\ ~IsErrorEnvelope(result[i])

\* C8 (as claimed): the listing the client receives holds exactly one descriptor,
\* named search_content, whose schema lists 21 parameters.
C8_ListingHas21Parameters ==
  cpc \in {"tools", "calling", "printed", "closed"}
    => /\ Len(tools_seen) = 1
       /\ tools_seen[1].name = "search_content"
       /\ Len(tools_seen[1].params) = 21

\* C8 (amended): the listing holds exactly one descriptor, named search_content,
\* whose schema lists the 22 SearchRequest fields: keyword, required and without a
\* default, and the 21 optional fields, each with its documented default.
C8_ListingHas22Parameters ==
  cpc \in {"tools", "calling", "printed", "closed"}
    => /\ Len(tools_seen) = 1
       /\ LET t == tools_seen[1]
          IN /\ t.name = "search_content"
             /\ Len(t.params) = 22
             /\ {t.params[k] : k \in 1..Len(t.params)} = DocumentedFields
             /\ t.required = {"keyword"}
             /\ DOMAIN t.defaults = DocumentedFields \ {"keyword"}
             /\ Cardinality(DOMAIN t.defaults) = 21
             /\ \A f \in DOMAIN t.defaults : t.defaults[f] = DocumentedDefault(f)

C8_Witness ==
  /\ cpc = "tools"
  /\ \A i \in Slots : pc[i] = "idle"
  /\ Len(tools_seen) = 1
  /\ Len(tools_seen[1].params) = 22

\* C10: under every interleaving, activations with the same arguments send the
\* same request and activations with the same remote outcome return the same
\* result, each makes at most one outbound call, no step changes what another
\* activation holds, and the credential, the registry and the shared defaults never
\* change.
C10_Independent ==
  /\ [](\A i, j \in Slots :
          /\ Len(request[i]) <= 1
          /\ (Posted(i) /\ Posted(j) /\ args[i] = args[j]) => request[i] = request[j]
          /\ (pc[i] = "returned" /\ pc[j] = "returned" /\ outcome[i] = outcome[j])
               => result[i] = result[j])
  /\ [][ /\ api_token' = api_token
         /\ tools' = tools
         /\ defaults' = defaults
         /\ \A i \in Slots :
              /\ pc'[i] = pc[i]
                   => /\ args'[i] = args[i]
                      /\ request'[i] = request[i]
                      /\ outcome'[i] = outcome[i]
                      /\ result'[i] = result[i]
                      /\ exc'[i] = exc[i]
              /\ Posted(i) => (request'[i] = request[i] /\ args'[i] = args[i]) ]_vars

C10_Witness ==
  \E i, j \in Slots :
    /\ pc[i] = "posting"
    /\ pc[j] = "returned"
    /\ args[i] # args[j]
    /\ request[i] # request[j]
    /\ "approvers" \notin DOMAIN args[i]

====
